---- MODULE Spec2Model ----
(***************************************************************************)
(* The print-ir and check commands of dnscontrol (commands/printIR.go):    *)
(* PrintIR, PrintValidationErrors, ExecuteDSL, PrintJSON, exit and         *)
(* stringSliceToMap, as one sequential control path with a program         *)
(* counter.  The evaluator, the post-processor, the validator, the JSON    *)
(* encoder and the file system are collaborators: their outcomes are       *)
(* nondeterministic choices.                                               *)
(***************************************************************************)
EXTENDS Integers, Sequences, FiniteSets, TLC

\* ------------------------------------------------------------- bounds
MaxIssues == 2
MaxDomains == 2
MaxVars == 3
MaxStrLen == 3

\* ------------------------------------------------------------- values
\* A Go error is the sequence of the pieces of its text; nil is the empty one.
Nil == <<>>

DevNull == "/dev/null"

JSFiles == {"", "dnsconfig.js"}

Outputs == {"", "out.json"}

\* The characters a KEY=VALUE token is made of.
Chars == {"k", "="}

DomainNames == {"example.com"}

\* normalize.Warning, any other error type the validator returns, and a value
\* that is neither (a nil entry, a pointer to a Warning, a foreign error).
Kinds == {"Warning", "Error", "Other"}

Messages == {"m1", "m2"}

SeqUpTo(S, n) == UNION {[1..k -> S] : k \in 0..n}

Strings == SeqUpTo(Chars, MaxStrLen)

Issues == [kind : Kinds, msg : Messages]

\* models.DNSConfig: the ordered domains, each in the form the last pass that
\* rewrote it left it in.  A nil *DNSConfig is NilConfig.
DomainsIn(form) == SeqUpTo([name : DomainNames, form : {form}], MaxDomains)

NilConfig == [nil |-> TRUE, Domains |-> <<>>]

Config(domains) == [nil |-> FALSE, Domains |-> domains]

Rewrite(domains, form) == [j \in 1..Len(domains) |-> [domains[j] EXCEPT !.form = form]]

VARIABLES
    cmd,        \* the subcommand invoked: "print-ir", "check" or (SpecMap) "map"
    flags,      \* the flags the command line set
    args,       \* the PrintIRArgs PrintIR runs with
    pc,         \* the position of the control path
    cfg,        \* PrintIR's cfg
    loaded,     \* the graph GetDNSConfig returned
    errs,       \* PrintIR's errs
    idx,        \* PrintValidationErrors: the range loop's position
    fatal,      \* PrintValidationErrors: the named result
    err,        \* the error PrintIR returns
    ret,        \* what exit() returned to the Action
    dat,        \* PrintJSON's dat
    jsonArg,    \* the config PrintJSON was called with
    out,        \* the writes made to each stream, in order
    logOutput,  \* the stream the log package writes to
    ErrWriter,  \* cli.ErrWriter
    fs,         \* the destination files: existence and content
    fd,         \* PrintJSON's file handle f
    trace,      \* the calls made so far, in order
    evalArgs,   \* the arguments the evaluator was called with
    exitCode,   \* the process exit code, -1 while running
    dnsConfig,  \* ExecuteDSL's dnsConfig
    dslRet,     \* what ExecuteDSL returned
    mapString,  \* stringSliceToMap's result (SpecMap)
    faults      \* the collaborators that have reported a failure

vars == <<cmd, flags, args, pc, cfg, loaded, errs, idx, fatal, err, ret, dat,
          jsonArg, out, logOutput, ErrWriter, fs, fd, trace, evalArgs,
          exitCode, dnsConfig, dslRet, mapString, faults>>

\* ---------------------------------------------------- stringSliceToMap
EmptyMap == [k \in {} |-> <<>>]

\* strings.Index(s, c) from position `from`: the first position holding c, 0 if none.
RECURSIVE Index(_, _, _)
Index(s, c, from) ==
    IF from > Len(s) THEN 0
    ELSE IF s[from] = c THEN from
    ELSE Index(s, c, from + 1)

\* The same scan from the right end (strings.LastIndex).
RECURSIVE LastIndex(_, _, _)
LastIndex(s, c, from) ==
    IF from < 1 THEN 0
    ELSE IF s[from] = c THEN from
    ELSE LastIndex(s, c, from - 1)

SplitAtLast(values) ==
    LET p == LastIndex(values, "=", Len(values))
    IN  IF p = 0 THEN <<values>>
        ELSE <<SubSeq(values, 1, p - 1), SubSeq(values, p + 1, Len(values))>>

\* strings.SplitN(values, "=", 2): at most two parts, the second the unsplit rest.
SplitN2(values) ==
    LET p == Index(values, "=", 1)
    IN  IF p = 0 THEN <<values>>
        ELSE <<SubSeq(values, 1, p - 1), SubSeq(values, p + 1, Len(values))>>

MapSet(m, k, v) == [x \in (DOMAIN m) \cup {k} |-> IF x = k THEN v ELSE m[x]]

\* One pass of the range loop over stringSlice.Value(), from position n on.
RECURSIVE MapRange(_, _, _)
MapRange(m, slice, n) ==
    IF n > Len(slice) THEN m
    ELSE LET parts == SplitN2(slice[n])
         IN  IF Len(parts) = 2
             THEN MapRange(MapSet(m, parts[1], parts[2]), slice, n + 1)
             ELSE MapRange(m, slice, n + 1)

stringSliceToMap(stringSlice) == MapRange(EmptyMap, stringSlice, 1)

\* ------------------------------------------------------------ encoding
Indent(depth) == [j \in 1..depth |-> "  "]

NewLine(pretty, depth) == IF pretty THEN <<"\n">> \o Indent(depth) ELSE <<>>

Space(pretty) == IF pretty THEN <<" ">> ELSE <<>>

MarshalDomain(d, pretty, depth) ==
    <<"{">> \o NewLine(pretty, depth + 1) \o <<"name", ":">> \o Space(pretty)
        \o <<d.name, ",">> \o NewLine(pretty, depth + 1) \o <<"form", ":">>
        \o Space(pretty) \o <<d.form>> \o NewLine(pretty, depth) \o <<"}">>

RECURSIVE MarshalDomains(_, _, _, _)
MarshalDomains(domains, n, pretty, depth) ==
    IF n > Len(domains) THEN <<>>
    ELSE (IF n > 1 THEN <<",">> ELSE <<>>) \o NewLine(pretty, depth)
         \o MarshalDomain(domains[n], pretty, depth)
         \o MarshalDomains(domains, n + 1, pretty, depth)

\* json.Marshal (pretty = FALSE) and json.MarshalIndent(config, "", "  ").
Marshal(config, pretty) ==
    IF config.nil THEN <<"null">>
    ELSE <<"{">> \o NewLine(pretty, 1) \o <<"domains", ":">> \o Space(pretty)
         \o (IF Len(config.Domains) = 0 THEN <<"[", "]">>
             ELSE <<"[">> \o MarshalDomains(config.Domains, 1, pretty, 2)
                  \o NewLine(pretty, 1) \o <<"]">>)
         \o NewLine(pretty, 0) \o <<"}">>

\* ---------------------------------------------------------- the commands
ZeroArgs ==
    [JSFile |-> "", JSONFile |-> "", DevMode |-> FALSE, Variable |-> <<>>,
     Pretty |-> FALSE, Output |-> "", Raw |-> FALSE]

\* The token lists the pipeline is run with; SpecMap runs over all of Strings.
VariableSamples == {<<>>, << <<"k", "=", "k">> >>}

NoFile == [exists |-> FALSE, data |-> <<>>]

OldFile == [exists |-> TRUE, data |-> <<"old">>]

NilExit == [nil |-> TRUE, message |-> Nil, exitCode |-> 0]

NoEval == [path |-> "", devMode |-> FALSE, vars |-> EmptyMap]

InitCommon ==
    /\ args = ZeroArgs
    /\ cfg = NilConfig
    /\ loaded = NilConfig
    /\ errs = <<>>
    /\ idx = 0
    /\ fatal = FALSE
    /\ err = Nil
    /\ ret = NilExit
    /\ dat = <<>>
    /\ jsonArg = NilConfig
    /\ out = [stdout |-> <<>>, stderr |-> <<>>]
    /\ logOutput = "stderr"
    /\ ErrWriter = "stderr"
    /\ fd = "none"
    /\ trace = <<>>
    /\ evalArgs = NoEval
    /\ exitCode = -1
    /\ dnsConfig = NilConfig
    /\ dslRet = [cfg |-> NilConfig, err |-> Nil]
    /\ mapString = EmptyMap
    /\ faults = {}

Init ==
    /\ cmd \in {"print-ir", "check"}
    /\ flags \in [JSFile : JSFiles, JSONFile : {""}, DevMode : BOOLEAN,
                  Variable : VariableSamples, Pretty : BOOLEAN,
                  Output : Outputs, Raw : BOOLEAN]
    \* CheckArgs holds GetDNSConfigArgs only: check has no pretty, out or raw flag.
    /\ cmd = "check" => (~flags.Pretty /\ flags.Output = "" /\ ~flags.Raw)
    /\ pc = "start"
    /\ fs \in [{"out.json"} -> {NoFile, OldFile}]
    /\ InitCommon

\* A write of one chunk (a sequence of text pieces) to a stream.
Emit(o, stream, chunk) == [o EXCEPT ![stream] = Append(@, chunk)]

Called(name) == Cardinality({n \in 1..Len(trace) : trace[n] = name})

\* --- the print-ir Action: PrintIR runs with the flags as given.
PrintIRCommand ==
    /\ pc = "start"
    /\ cmd = "print-ir"
    /\ args' = flags
    /\ pc' = "PrintIR"
    /\ UNCHANGED <<cmd, flags, cfg, loaded, errs, idx, fatal, err, ret, dat,
                   jsonArg, out, logOutput, ErrWriter, fs, fd, trace, evalArgs,
                   exitCode, dnsConfig, dslRet, mapString, faults>>

\* A check that copies its four fields and forces nothing.
CheckPargsCopyOnly(a) ==
    [ZeroArgs EXCEPT !.JSFile = a.JSFile, !.JSONFile = a.JSONFile,
                     !.DevMode = a.DevMode, !.Variable = a.Variable]

\* --- the check Action, up to its call of PrintIR.
\* pargs: four fields copied, Pretty and Output forced, Raw left at its zero value.
CheckPargs(a) ==
    [ZeroArgs EXCEPT !.JSFile = a.JSFile, !.JSONFile = a.JSONFile,
                     !.DevMode = a.DevMode, !.Variable = a.Variable,
                     !.Pretty = FALSE, !.Output = DevNull]

CheckCommand ==
    /\ pc = "start"
    /\ cmd = "check"
    /\ args' = CheckPargs(flags)
    /\ ErrWriter' = "stdout"
    /\ logOutput' = "stdout"
    /\ pc' = "PrintIR"
    /\ UNCHANGED <<cmd, flags, cfg, loaded, errs, idx, fatal, err, ret, dat,
                   jsonArg, out, fs, fd, trace, evalArgs, exitCode, dnsConfig,
                   dslRet, mapString, faults>>

\* --- PrintIR: the call of GetDNSConfig, which hands the arguments to ExecuteDSL.
GetDNSConfig ==
    /\ pc = "PrintIR"
    /\ trace' = Append(trace, "GetDNSConfig")
    /\ pc' = "ExecuteDSL"
    /\ UNCHANGED <<cmd, flags, args, cfg, loaded, errs, idx, fatal, err, ret,
                   dat, jsonArg, out, logOutput, ErrWriter, fs, fd, evalArgs,
                   exitCode, dnsConfig, dslRet, mapString, faults>>

\* An ExecuteDSL without the empty-path test.
NeverNoConfig(a) == FALSE

\* --- ExecuteDSL
NoConfigSpecified(a) == a.JSFile = ""

ExecuteDSL_Check ==
    /\ pc = "ExecuteDSL"
    /\ IF NoConfigSpecified(args)
       THEN /\ dslRet' = [cfg |-> NilConfig, err |-> <<"no config specified">>]
            /\ pc' = "PrintIR_loaded"
       ELSE /\ pc' = "ExecuteJavaScript"
            /\ UNCHANGED dslRet
    /\ UNCHANGED <<cmd, flags, args, cfg, loaded, errs, idx, fatal, err, ret,
                   dat, jsonArg, out, logOutput, ErrWriter, fs, fd, trace,
                   evalArgs, exitCode, dnsConfig, mapString, faults>>

\* An ExecuteDSL that returns the evaluator's error as it got it.
ReturnUnwrapped(path, e) == e

\* fmt.Errorf("executing %s: %w", args.JSFile, err)
WrapExecuting(path, e) == <<"executing ", path, ": ">> \o e

ExecuteJavaScript ==
    /\ pc = "ExecuteJavaScript"
    /\ trace' = Append(trace, "ExecuteJavaScript")
    /\ evalArgs' = [path |-> args.JSFile, devMode |-> args.DevMode,
                    vars |-> stringSliceToMap(args.Variable)]
    /\ \/ \E d \in DomainsIn("evaluated") :
            /\ dnsConfig' = Config(d)
            /\ pc' = "PostProcess"
            /\ UNCHANGED <<dslRet, faults>>
       \/ /\ dslRet' = [cfg |-> NilConfig,
                        err |-> WrapExecuting(args.JSFile, <<"js error">>)]
          /\ pc' = "PrintIR_loaded"
          /\ faults' = faults \cup {"ExecuteJavaScript"}
          /\ UNCHANGED dnsConfig
    /\ UNCHANGED <<cmd, flags, args, cfg, loaded, errs, idx, fatal, err, ret,
                   dat, jsonArg, out, logOutput, ErrWriter, fs, fd, exitCode,
                   mapString>>

PostProcess ==
    /\ pc = "PostProcess"
    /\ trace' = Append(trace, "PostProcess")
    /\ dnsConfig' = Config(Rewrite(dnsConfig.Domains, "postprocessed"))
    /\ \/ /\ dslRet' = [cfg |-> dnsConfig', err |-> Nil]
          /\ UNCHANGED faults
       \/ /\ dslRet' = [cfg |-> NilConfig, err |-> <<"postprocess error">>]
          /\ faults' = faults \cup {"PostProcess"}
    /\ pc' = "PrintIR_loaded"
    /\ UNCHANGED <<cmd, flags, args, cfg, loaded, errs, idx, fatal, err, ret,
                   dat, jsonArg, out, logOutput, ErrWriter, fs, fd, evalArgs,
                   exitCode, mapString>>

\* A PrintIR that does not look at GetDNSConfig's error.
LoadNeverFailed(r) == FALSE

\* --- PrintIR, after GetDNSConfig has returned
LoadFailed(r) == r.err # Nil

\* A PrintIR that validates whatever the raw flag says.
NeverSkipValidation(a) == FALSE

SkipValidation(a) == a.Raw

PrintIR_Loaded ==
    /\ pc = "PrintIR_loaded"
    /\ cfg' = dslRet.cfg
    /\ IF LoadFailed(dslRet)
       THEN /\ err' = dslRet.err
            /\ pc' = "exit"
            /\ UNCHANGED loaded
       ELSE /\ loaded' = dslRet.cfg
            /\ pc' = IF SkipValidation(args) THEN "PrintJSON"
                     ELSE "ValidateAndNormalizeConfig"
            /\ UNCHANGED err
    /\ UNCHANGED <<cmd, flags, args, errs, idx, fatal, ret, dat, jsonArg, out,
                   logOutput, ErrWriter, fs, fd, trace, evalArgs, exitCode,
                   dnsConfig, dslRet, mapString, faults>>

\* normalize.ValidateAndNormalizeConfig(cfg): rewrites cfg in place, returns errs.
ValidateAndNormalizeConfig ==
    /\ pc = "ValidateAndNormalizeConfig"
    /\ trace' = Append(trace, "ValidateAndNormalizeConfig")
    /\ cfg' = Config(Rewrite(cfg.Domains, "normalized"))
    /\ errs' \in SeqUpTo(Issues, MaxIssues)
    /\ pc' = "PrintValidationErrors"
    /\ UNCHANGED <<cmd, flags, args, loaded, idx, fatal, err, ret, dat, jsonArg,
                   out, logOutput, ErrWriter, fs, fd, evalArgs, exitCode,
                   dnsConfig, dslRet, mapString, faults>>

\* --- PrintValidationErrors
\* A type test that also lets a kind other than Warning through.
IsWarningLoose(e) == e.kind \in {"Warning", "Other"}

\* err.(normalize.Warning)
IsWarning(e) == e.kind = "Warning"

\* log.Printf("%d Validation errors:\n", len(errs))
CountLine(n) == <<ToString(n), " Validation errors:", "\n">>

\* log.Printf("WARNING: %s\n", err) and log.Printf("ERROR: %s\n", err)
IssueLine(e) ==
    IF IsWarning(e) THEN <<"WARNING: ", e.msg, "\n">> ELSE <<"ERROR: ", e.msg, "\n">>

PVE_Enter ==
    /\ pc = "PrintValidationErrors"
    /\ trace' = Append(trace, "PrintValidationErrors")
    /\ fatal' = FALSE
    /\ IF Len(errs) = 0
       THEN /\ pc' = "PrintIR_validated"
            /\ UNCHANGED <<out, idx>>
       ELSE /\ out' = Emit(out, logOutput, CountLine(Len(errs)))
            /\ idx' = 1
            /\ pc' = "PVE_range"
    /\ UNCHANGED <<cmd, flags, args, cfg, loaded, errs, err, ret, dat, jsonArg,
                   logOutput, ErrWriter, fs, fd, evalArgs, exitCode, dnsConfig,
                   dslRet, mapString, faults>>

\* A loop that breaks after the first issue that is not a Warning.
RangeDoneAtFirstError(n, list) ==
    \/ n > Len(list)
    \/ (n > 1 /\ list[n - 1].kind # "Warning")

\* The range loop: one issue per step, then the return.
RangeDone(n, list) == n > Len(list)

PVE_Range ==
    /\ pc = "PVE_range"
    /\ IF RangeDone(idx, errs)
       THEN /\ pc' = "PrintIR_validated"
            /\ UNCHANGED <<out, idx, fatal>>
       ELSE /\ out' = Emit(out, logOutput, IssueLine(errs[idx]))
            /\ fatal' = (fatal \/ ~IsWarning(errs[idx]))
            /\ idx' = idx + 1
            /\ pc' = "PVE_range"
    /\ UNCHANGED <<cmd, flags, args, cfg, loaded, errs, err, ret, dat, jsonArg,
                   logOutput, ErrWriter, fs, fd, trace, evalArgs, exitCode,
                   dnsConfig, dslRet, mapString, faults>>

\* A PrintIR that drops PrintValidationErrors' result.
PrintIR_ValidatedIgnoringFatal ==
    /\ pc = "PrintIR_validated"
    /\ pc' = "PrintJSON"
    /\ UNCHANGED <<cmd, flags, args, cfg, loaded, errs, idx, fatal, err, ret,
                   dat, jsonArg, out, logOutput, ErrWriter, fs, fd, trace,
                   evalArgs, exitCode, dnsConfig, dslRet, mapString, faults>>

\* --- PrintIR, after PrintValidationErrors has returned
PrintIR_Validated ==
    /\ pc = "PrintIR_validated"
    /\ IF fatal
       THEN /\ err' = <<"exiting due to validation errors">>
            /\ pc' = "exit"
       ELSE /\ pc' = "PrintJSON"
            /\ UNCHANGED err
    /\ UNCHANGED <<cmd, flags, args, cfg, loaded, errs, idx, fatal, ret, dat,
                   jsonArg, out, logOutput, ErrWriter, fs, fd, trace, evalArgs,
                   exitCode, dnsConfig, dslRet, mapString, faults>>

\* A PrintJSON that creates the destination first and renders afterwards.
PrintJSON_CreateBeforeMarshal ==
    /\ pc = "PrintJSON"
    /\ trace' = Append(trace, "PrintJSON")
    /\ jsonArg' = cfg
    /\ fs' = IF args.Output # "" THEN [p \in DOMAIN fs |->
                  IF p = args.Output THEN [exists |-> TRUE, data |-> <<>>] ELSE fs[p]]
             ELSE fs
    /\ \/ /\ dat' = Marshal(cfg, args.Pretty)
          /\ pc' = IF args.Output # "" THEN "Create" ELSE "Println"
          /\ UNCHANGED <<err, faults>>
       \/ /\ err' = <<"json: error calling MarshalJSON">>
          /\ pc' = "exit"
          /\ faults' = faults \cup {"json.Marshal"}
          /\ UNCHANGED dat
    /\ UNCHANGED <<cmd, flags, args, cfg, loaded, errs, idx, fatal, ret, out,
                   logOutput, ErrWriter, fd, evalArgs, exitCode, dnsConfig,
                   dslRet, mapString>>

\* --- PrintJSON
PrintJSON_Marshal ==
    /\ pc = "PrintJSON"
    /\ trace' = Append(trace, "PrintJSON")
    /\ jsonArg' = cfg
    /\ \/ /\ dat' = Marshal(cfg, args.Pretty)
          /\ pc' = IF args.Output # "" THEN "Create" ELSE "Println"
          /\ UNCHANGED <<err, faults>>
       \/ /\ err' = <<"json: error calling MarshalJSON">>
          /\ pc' = "exit"
          /\ faults' = faults \cup {"json.Marshal"}
          /\ UNCHANGED dat
    /\ UNCHANGED <<cmd, flags, args, cfg, loaded, errs, idx, fatal, ret, out,
                   logOutput, ErrWriter, fs, fd, evalArgs, exitCode, dnsConfig,
                   dslRet, mapString>>

\* What a path holds after a write of data to it: the discard sink keeps nothing.
Stored(f, path, data) ==
    IF path = DevNull THEN f
    ELSE [f EXCEPT ![path] = [exists |-> TRUE, data |-> data]]

\* os.Create(args.Output): creates or truncates, or fails leaving the path alone.
PrintJSON_Create ==
    /\ pc = "Create"
    /\ trace' = Append(trace, "os.Create")
    /\ \/ /\ fs' = Stored(fs, args.Output, <<>>)
          /\ fd' = "open"
          /\ pc' = "Write"
          /\ UNCHANGED <<err, faults>>
       \/ /\ err' = <<"open ", args.Output, ": permission denied">>
          /\ pc' = "exit"
          /\ faults' = faults \cup {"os.Create"}
          /\ UNCHANGED <<fs, fd>>
    /\ UNCHANGED <<cmd, flags, args, cfg, loaded, errs, idx, fatal, ret, dat,
                   jsonArg, out, logOutput, ErrWriter, evalArgs, exitCode,
                   dnsConfig, dslRet, mapString>>

\* What a failed f.Write may have got out: nothing, or all but the last piece.
ShortWrites(data) ==
    {SubSeq(data, 1, n) : n \in {0, IF Len(data) = 0 THEN 0 ELSE Len(data) - 1}}

\* A PrintJSON that closes f after a successful write only, not by defer.
PrintJSON_WriteCloseOnSuccess ==
    /\ pc = "Write"
    /\ trace' = Append(trace, "f.Write")
    /\ \/ /\ fs' = Stored(fs, args.Output, dat)
          /\ err' = Nil
          /\ fd' = "closed"
          /\ UNCHANGED faults
       \/ \E part \in ShortWrites(dat) :
            /\ fs' = Stored(fs, args.Output, part)
            /\ err' = <<"write ", args.Output, ": no space left on device">>
            /\ faults' = faults \cup {"f.Write"}
            /\ UNCHANGED fd
    /\ pc' = "exit"
    /\ UNCHANGED <<cmd, flags, args, cfg, loaded, errs, idx, fatal, ret, dat,
                   jsonArg, out, logOutput, ErrWriter, evalArgs, exitCode,
                   dnsConfig, dslRet, mapString>>

\* f.Write(dat), return err, and the deferred f.Close().
PrintJSON_Write ==
    /\ pc = "Write"
    /\ trace' = Append(trace, "f.Write")
    /\ \/ /\ fs' = Stored(fs, args.Output, dat)
          /\ err' = Nil
          /\ UNCHANGED faults
       \/ \E part \in ShortWrites(dat) :
            /\ fs' = Stored(fs, args.Output, part)
            /\ err' = <<"write ", args.Output, ": no space left on device">>
            /\ faults' = faults \cup {"f.Write"}
    /\ fd' = "closed"
    /\ pc' = "exit"
    /\ UNCHANGED <<cmd, flags, args, cfg, loaded, errs, idx, fatal, ret, dat,
                   jsonArg, out, logOutput, ErrWriter, evalArgs, exitCode,
                   dnsConfig, dslRet, mapString>>

\* fmt.Println(string(dat)); return nil
PrintJSON_Println ==
    /\ pc = "Println"
    /\ out' = Emit(out, "stdout", dat \o <<"\n">>)
    /\ err' = Nil
    /\ pc' = "exit"
    /\ UNCHANGED <<cmd, flags, args, cfg, loaded, errs, idx, fatal, ret, dat,
                   jsonArg, logOutput, ErrWriter, fs, fd, trace, evalArgs,
                   exitCode, dnsConfig, dslRet, mapString, faults>>

\* An exit that wraps the error with exit code 0.
exitWithCodeZero(e) ==
    IF e = Nil THEN NilExit
    ELSE [nil |-> FALSE, message |-> e, exitCode |-> 0]

\* --- exit: nil stays nil, anything else becomes cli.Exit(err, 1).
exit(e) ==
    IF e = Nil THEN NilExit
    ELSE [nil |-> FALSE, message |-> e, exitCode |-> 1]

Exit ==
    /\ pc = "exit"
    /\ ret' = exit(err)
    /\ pc' = IF cmd = "check" THEN "PrintWarning" ELSE "return"
    /\ UNCHANGED <<cmd, flags, args, cfg, loaded, errs, idx, fatal, err, dat,
                   jsonArg, out, logOutput, ErrWriter, fs, fd, trace, evalArgs,
                   exitCode, dnsConfig, dslRet, mapString, faults>>

\* --- the check Action, after PrintIR: rfc4183.PrintWarning()
PrintWarning ==
    /\ pc = "PrintWarning"
    /\ trace' = Append(trace, "PrintWarning")
    /\ pc' = "NoErrors"
    /\ UNCHANGED <<cmd, flags, args, cfg, loaded, errs, idx, fatal, err, ret,
                   dat, jsonArg, out, logOutput, ErrWriter, fs, fd, evalArgs,
                   exitCode, dnsConfig, dslRet, mapString, faults>>

\* A check that prints its success line whatever PrintIR returned.
AlwaysSaysNoErrors(r) == TRUE

\* if err == nil { fmt.Fprintf(os.Stdout, "No errors.\n") }
SaysNoErrors(r) == r.nil

NoErrors ==
    /\ pc = "NoErrors"
    /\ out' = IF SaysNoErrors(ret) THEN Emit(out, "stdout", <<"No errors.", "\n">>)
              ELSE out
    /\ pc' = "return"
    /\ UNCHANGED <<cmd, flags, args, cfg, loaded, errs, idx, fatal, err, ret,
                   dat, jsonArg, logOutput, ErrWriter, fs, fd, trace, evalArgs,
                   exitCode, dnsConfig, dslRet, mapString, faults>>

\* --- the Action returns: the cli framework writes an exit error's message to
\* cli.ErrWriter and ends the process with its code.
Return ==
    /\ pc = "return"
    /\ out' = IF ret.nil THEN out
              ELSE Emit(out, ErrWriter, ret.message \o <<"\n">>)
    /\ exitCode' = ret.exitCode
    /\ pc' = "done"
    /\ UNCHANGED <<cmd, flags, args, cfg, loaded, errs, idx, fatal, err, ret,
                   dat, jsonArg, logOutput, ErrWriter, fs, fd, trace, evalArgs,
                   dnsConfig, dslRet, mapString, faults>>

Next ==
    \/ PrintIRCommand
    \/ CheckCommand
    \/ GetDNSConfig
    \/ ExecuteDSL_Check
    \/ ExecuteJavaScript
    \/ PostProcess
    \/ PrintIR_Loaded
    \/ ValidateAndNormalizeConfig
    \/ PVE_Enter
    \/ PVE_Range
    \/ PrintIR_Validated
    \/ PrintJSON_Marshal
    \/ PrintJSON_Create
    \/ PrintJSON_Write
    \/ PrintJSON_Println
    \/ Exit
    \/ PrintWarning
    \/ NoErrors
    \/ Return

Spec == Init /\ [][Next]_vars

\* ------------------------------------- stringSliceToMap as a pure function
InitMap ==
    /\ cmd = "map"
    /\ flags \in [JSFile : {"dnsconfig.js"}, JSONFile : {""}, DevMode : {FALSE},
                  Variable : SeqUpTo(Strings, MaxVars), Pretty : {FALSE},
                  Output : {""}, Raw : {FALSE}]
    /\ pc = "stringSliceToMap"
    /\ fs = [p \in {"out.json"} |-> NoFile]
    /\ InitCommon

CallStringSliceToMap ==
    /\ pc = "stringSliceToMap"
    /\ mapString' = stringSliceToMap(flags.Variable)
    /\ pc' = "mapped"
    /\ UNCHANGED <<cmd, flags, args, cfg, loaded, errs, idx, fatal, err, ret,
                   dat, jsonArg, out, logOutput, ErrWriter, fs, fd, trace,
                   evalArgs, exitCode, dnsConfig, dslRet, faults>>

NextMap == CallStringSliceToMap

SpecMap == InitMap /\ [][NextMap]_vars

\* ================================================================ claims
\* What the claims speak of, stated on the observable state alone.
HasFatal(list) == \E n \in 1..Len(list) : list[n].kind # "Warning"

\* PrintIR has returned to the Action that called it.
PrintIRReturned == pc \in {"exit", "PrintWarning", "NoErrors", "return", "done"}

\* PrintValidationErrors has returned to PrintIR.
PVEReturned == Called("PrintValidationErrors") = 1 /\ pc # "PVE_range"

LoadSucceeded ==
    /\ pc \notin {"start", "PrintIR", "ExecuteDSL", "ExecuteJavaScript", "PostProcess"}
    /\ dslRet.err = Nil

ExpectedIssueLine(e) ==
    <<IF e.kind = "Warning" THEN "WARNING: " ELSE "ERROR: ", e.msg, "\n">>

ExpectedCountLine(n) == <<ToString(n), " Validation errors:", "\n">>

\* The count line, then one line per issue in the order of the list.
IssueLinesEmitted(lines, list) ==
    /\ Len(lines) >= Len(list) + 1
    /\ lines[1] = ExpectedCountLine(Len(list))
    /\ \A n \in 1..Len(list) : lines[n + 1] = ExpectedIssueLine(list[n])

IsIssueLine(chunk) ==
    \/ chunk[1] \in {"WARNING: ", "ERROR: "}
    \/ (Len(chunk) >= 2 /\ chunk[2] = " Validation errors:")

IsJSONText(chunk) == chunk[1] \in {"{", "null"}

\* C1: when PrintValidationErrors returns, its fatal result is true exactly when
\* the list holds an issue whose kind is not Warning (Error or any other kind).
C1_FatalIffNonWarning ==
    (pc = "PrintIR_validated") => (fatal <=> HasFatal(errs))

\* C1 witness: a returned classification of a list mixing a Warning with an issue
\* that is neither Warning nor Error, reported fatal.
C1_Witness ==
    /\ pc = "PrintIR_validated"
    /\ Len(errs) = 2
    /\ errs[1].kind = "Other"
    /\ errs[2].kind = "Warning"
    /\ fatal

\* C10: PrintValidationErrors emits nothing for an empty list, and otherwise
\* exactly N+1 lines on the log stream: the count line, then one line per issue
\* in list order, WARNING: for a Warning and ERROR: for anything else.
C10_LinesInOrder ==
    (pc = "PrintIR_validated") =>
        /\ \A st \in {"stdout", "stderr"} : st # logOutput => out[st] = <<>>
        /\ IF Len(errs) = 0 THEN out[logOutput] = <<>>
           ELSE /\ Len(out[logOutput]) = Len(errs) + 1
                /\ IssueLinesEmitted(out[logOutput], errs)

\* C10 witness: a list whose first issue is an Error and whose second repeats
\* its message as a Warning; all three lines are out.
C10_Witness ==
    /\ pc = "PrintIR_validated"
    /\ Len(errs) = 2
    /\ errs[1].kind = "Error"
    /\ errs[2].kind = "Warning"
    /\ errs[1].msg = errs[2].msg
    /\ Len(out[logOutput]) = 3

\* C2: in a non-raw run whose validator returned a fatal issue, the serializer
\* is never called, and once PrintIR has returned its error is the generic
\* "exiting due to validation errors" with the count line and every issue's
\* line already on the log stream; the process then exits with code 1.
C2_FatalAborts ==
    (~args.Raw /\ HasFatal(errs)) =>
        /\ Called("PrintJSON") = 0
        /\ PrintIRReturned =>
              /\ err = <<"exiting due to validation errors">>
              /\ IssueLinesEmitted(out[logOutput], errs)
        /\ pc \in {"PrintWarning", "NoErrors", "return", "done"} =>
              (~ret.nil /\ ret.message = <<"exiting due to validation errors">>)
        /\ pc = "done" => exitCode = 1

\* C2 witness: PrintIR has just returned the validation failure of a list that
\* holds a Warning and an Error.
C2_Witness ==
    /\ pc = "exit"
    /\ ~args.Raw
    /\ Len(errs) = 2
    /\ errs[1].kind = "Warning"
    /\ errs[2].kind = "Error"
    /\ err = <<"exiting due to validation errors">>
    /\ Len(out[logOutput]) = 3

\* C3: in a raw run the validator and the classifier are never called, no issue
\* line is ever written, and when Load succeeded PrintIR has called the
\* serializer, once, with the graph exactly as Load returned it.
C3_RawSkipsValidation ==
    args.Raw =>
        /\ Called("ValidateAndNormalizeConfig") = 0
        /\ Called("PrintValidationErrors") = 0
        /\ \A st \in {"stdout", "stderr"} :
              \A n \in 1..Len(out[st]) : ~IsIssueLine(out[st][n])
        /\ (PrintIRReturned /\ LoadSucceeded) =>
              /\ Called("PrintJSON") = 1
              /\ jsonArg = dslRet.cfg
              /\ jsonArg = loaded
              /\ ~jsonArg.nil

\* C3 witness: a finished raw run that serialized a graph with a domain in it.
C3_Witness ==
    /\ pc = "done"
    /\ args.Raw
    /\ Called("PrintJSON") = 1
    /\ Len(jsonArg.Domains) = 1
    /\ jsonArg.Domains[1].form = "postprocessed"
    /\ exitCode = 0

\* The failures the collaborators of each stage reported.
LoadFaults == faults \cap {"ExecuteJavaScript", "PostProcess"}

SerializeFaults == faults \cap {"json.Marshal", "os.Create", "f.Write"}

\* Load succeeded, validation was skipped or found nothing fatal, and the
\* serializer's collaborators all succeeded.
RunSucceeds ==
    /\ flags.JSFile # ""
    /\ LoadFaults = {}
    /\ (args.Raw \/ ~HasFatal(errs))
    /\ SerializeFaults = {}

\* The message of the stage that failed.
StageMessage ==
    IF flags.JSFile = "" THEN <<"no config specified">>
    ELSE IF "ExecuteJavaScript" \in faults
         THEN <<"executing ", flags.JSFile, ": ", "js error">>
    ELSE IF "PostProcess" \in faults THEN <<"postprocess error">>
    ELSE IF ~args.Raw /\ HasFatal(errs) THEN <<"exiting due to validation errors">>
    ELSE IF "json.Marshal" \in faults THEN <<"json: error calling MarshalJSON">>
    ELSE IF "os.Create" \in faults
         THEN <<"open ", args.Output, ": permission denied">>
    ELSE <<"write ", args.Output, ": no space left on device">>

LastOf(seq) == seq[Len(seq)]

\* C4: for both commands the Action's result is nil with exit code 0 exactly
\* when Load succeeded, validation was skipped or found no non-Warning issue,
\* and serialization succeeded; otherwise it is an exit error with code 1 that
\* carries the failed stage's message, written to the command's error stream.
C4_ExitSignal ==
    /\ pc \in {"PrintWarning", "NoErrors", "return", "done"} =>
          IF RunSucceeds THEN ret = NilExit
          ELSE /\ ~ret.nil
               /\ ret.exitCode = 1
               /\ ret.message = StageMessage
    /\ pc = "done" =>
          IF RunSucceeds THEN exitCode = 0
          ELSE /\ exitCode = 1
               /\ Len(out[IF cmd = "check" THEN "stdout" ELSE "stderr"]) > 0
               /\ LastOf(out[IF cmd = "check" THEN "stdout" ELSE "stderr"])
                     = StageMessage \o <<"\n">>

\* C4 witness: a finished run whose validator returned two Warnings and that
\* exits 0.
C4_Witness ==
    /\ pc = "done"
    /\ Len(errs) = 2
    /\ ~HasFatal(errs)
    /\ exitCode = 0
    /\ ret = NilExit

NoErrorsLine == <<"No errors.", "\n">>

Printed(stream, chunk) == \E n \in 1..Len(out[stream]) : out[stream][n] = chunk

\* C5: in a check run rfc4183.PrintWarning is called exactly once, only after
\* PrintIR has returned and whatever it returned; and "No errors." is on
\* standard output, once the Action is done, exactly when PrintIR returned nil:
\* never after a fatal issue, a load error or a serialization error.
C5_CheckEpilogue ==
    (cmd = "check") =>
        /\ Called("PrintWarning") <= 1
        /\ Called("PrintWarning") = 1 <=> pc \in {"NoErrors", "return", "done"}
        /\ Called("PrintWarning") = 1 => LastOf(trace) = "PrintWarning"
        /\ ~Printed("stderr", NoErrorsLine)
        /\ pc \notin {"return", "done"} => ~Printed("stdout", NoErrorsLine)
        /\ pc \in {"return", "done"} =>
              /\ Printed("stdout", NoErrorsLine) <=> (err = Nil)
              /\ Printed("stdout", NoErrorsLine) <=> RunSucceeds

\* C5 witness: a finished check run that failed on a fatal issue, with the
\* warning emitter called and no success line.
C5_Witness ==
    /\ cmd = "check"
    /\ pc = "done"
    /\ HasFatal(errs)
    /\ Called("PrintWarning") = 1
    /\ ~Printed("stdout", NoErrorsLine)
    /\ exitCode = 1

\* C6: with an empty source path either command fails with "no config
\* specified" and calls neither the evaluator, the post-processor, the
\* validator nor the serializer.
C6_NoConfig ==
    (flags.JSFile = "") =>
        /\ Called("ExecuteJavaScript") = 0
        /\ Called("PostProcess") = 0
        /\ Called("ValidateAndNormalizeConfig") = 0
        /\ Called("PrintValidationErrors") = 0
        /\ Called("PrintJSON") = 0
        /\ evalArgs = NoEval
        /\ PrintIRReturned => err = <<"no config specified">>
        /\ pc = "done" =>
              /\ exitCode = 1
              /\ ret.message = <<"no config specified">>
              /\ out[ErrWriter] = << <<"no config specified", "\n">> >>

\* C6 witness: a finished check run that was given no source path.
C6_Witness ==
    /\ cmd = "check"
    /\ flags.JSFile = ""
    /\ pc = "done"
    /\ exitCode = 1
    /\ trace = <<"GetDNSConfig", "PrintWarning">>

\* C8: a check run calls PrintIR with pretty off, the discard sink as the
\* destination and raw off, with the log stream and cli.ErrWriter on standard
\* output: validation runs once Load has succeeded, nothing is written to the
\* error stream, the failure message is on standard output, and no serialized
\* text is written to standard output.
C8_CheckConfiguration ==
    (cmd = "check" /\ pc # "start") =>
        /\ ~args.Pretty
        /\ args.Output = DevNull
        /\ ~args.Raw
        /\ logOutput = "stdout"
        /\ ErrWriter = "stdout"
        /\ out["stderr"] = <<>>
        /\ \A n \in 1..Len(out["stdout"]) : ~IsJSONText(out["stdout"][n])
        /\ (LoadSucceeded /\ pc \notin {"PrintIR_loaded", "ValidateAndNormalizeConfig"}) =>
              Called("ValidateAndNormalizeConfig") = 1
        /\ PVEReturned /\ Len(errs) > 0 => IssueLinesEmitted(out["stdout"], errs)
        /\ (pc = "done" /\ ~ret.nil) =>
              LastOf(out["stdout"]) = ret.message \o <<"\n">>

\* C8 witness: a finished check run that serialized to the discard sink after
\* logging a Warning on standard output.
C8_Witness ==
    /\ cmd = "check"
    /\ pc = "done"
    /\ Called("f.Write") = 1
    /\ faults = {}
    /\ Len(errs) = 1
    /\ out["stdout"] = <<ExpectedCountLine(1), ExpectedIssueLine(errs[1]), NoErrorsLine>>

\* The stage a call belongs to: Load, Validate, Serialize, then check's epilogue.
StageOf(name) ==
    CASE name \in {"GetDNSConfig", "ExecuteJavaScript", "PostProcess"} -> 1
      [] name \in {"ValidateAndNormalizeConfig", "PrintValidationErrors"} -> 2
      [] name \in {"PrintJSON", "os.Create", "f.Write"} -> 3
      [] OTHER -> 4

\* C9: the calls of one invocation go Load, Validate, Serialize in that order,
\* none made twice; Validate starts only after Load returned without error (and
\* raw is off), Serialize only after Load succeeded and, unless raw, the
\* classifier returned not fatal with all its lines out; after a failure no
\* later stage starts and no second failure can happen.
C9_StagesInOrder ==
    /\ \A n \in 1..Len(trace) : Called(trace[n]) = 1
    /\ \A a, b \in 1..Len(trace) : a < b => StageOf(trace[a]) <= StageOf(trace[b])
    /\ Called("ValidateAndNormalizeConfig") = 1 =>
          /\ trace[1] = "GetDNSConfig"
          /\ Called("PostProcess") = 1
          /\ dslRet.err = Nil
          /\ LoadFaults = {}
          /\ flags.JSFile # ""
          /\ ~args.Raw
    /\ Called("PrintValidationErrors") = 1 => Called("ValidateAndNormalizeConfig") = 1
    /\ Called("PrintJSON") = 1 =>
          /\ trace[1] = "GetDNSConfig"
          /\ Called("PostProcess") = 1
          /\ dslRet.err = Nil
          /\ LoadFaults = {}
          /\ flags.JSFile # ""
          /\ \/ args.Raw
             \/ /\ PVEReturned
                /\ ~HasFatal(errs)
                /\ ~fatal
                /\ Len(errs) > 0 => IssueLinesEmitted(out[logOutput], errs)
    /\ Cardinality(faults) <= 1
    /\ faults # {} => pc \in {"PrintIR_loaded", "exit", "PrintWarning",
                              "NoErrors", "return", "done"}

\* C9 witness: a finished run that went through all three stages.
C9_Witness ==
    /\ pc = "done"
    /\ trace = <<"GetDNSConfig", "ExecuteJavaScript", "PostProcess",
                 "ValidateAndNormalizeConfig", "PrintValidationErrors",
                 "PrintJSON", "os.Create", "f.Write">>
    /\ Len(errs) = 2

\* The parts of a token at position p, its first "=".
FirstEqAt(s, p) == s[p] = "=" /\ \A q \in 1..(p - 1) : s[q] # "="

KeyAt(s, p) == SubSeq(s, 1, p - 1)

ValueAt(s, p) == SubSeq(s, p + 1, Len(s))

\* C7: stringSliceToMap's result holds, for every token with an "=", the text
\* before its first "=" as a key; every key's value is everything after the
\* first "=" of the last token with that key; tokens without "=" add nothing.
C7_MapOfTokens ==
    (pc = "mapped") =>
        LET list == flags.Variable
        IN  /\ \A n \in 1..Len(list) : \A p \in 1..Len(list[n]) :
                  FirstEqAt(list[n], p) => KeyAt(list[n], p) \in DOMAIN mapString
            /\ \A k \in DOMAIN mapString :
                  \E n \in 1..Len(list) : \E p \in 1..Len(list[n]) :
                      /\ FirstEqAt(list[n], p)
                      /\ KeyAt(list[n], p) = k
                      /\ mapString[k] = ValueAt(list[n], p)
                      /\ \A n2 \in (n + 1)..Len(list) : \A p2 \in 1..Len(list[n2]) :
                            FirstEqAt(list[n2], p2) => KeyAt(list[n2], p2) # k

\* C7 witness: a token without "=", then two tokens with the key "k", the
\* second with a value that holds an "=" itself; that value is the one kept.
C7_Witness ==
    /\ pc = "mapped"
    /\ flags.Variable = << <<"k", "k">>, <<"k", "=", "k">>, <<"k", "=", "=">> >>
    /\ DOMAIN mapString = {<<"k">>}
    /\ mapString[<<"k">>] = <<"=">>

\* PrintJSON has been called and has returned to PrintIR.
PrintJSONReturned == Called("PrintJSON") = 1 /\ PrintIRReturned

\* The writes of serialized text made to a stream.
JSONWrites(stream) == {n \in 1..Len(out[stream]) : IsJSONText(out[stream][n])}

\* C11: a call of PrintJSON uses the destination its Output names and never
\* both. With a path: nothing serialized goes to a stream, the file is created
\* or truncated and, after a successful write, holds the serialized text and
\* nothing more (no newline added), and the handle is closed when PrintJSON
\* returns, after a failed write too. With no path: the text and a newline go
\* to standard output once, no file is opened, and nil is returned. A failed
\* create or write is returned as the error.
C11_OneDestination ==
    /\ Called("os.Create") <= 1
    /\ Called("f.Write") <= 1
    /\ JSONWrites("stderr") = {}
    /\ (Called("os.Create") = 1 \/ fd # "none") =>
          (args.Output # "" /\ JSONWrites("stdout") = {})
    /\ JSONWrites("stdout") # {} =>
          /\ args.Output = ""
          /\ Called("os.Create") = 0
          /\ fd = "none"
          /\ \A n \in JSONWrites("stdout") :
                out["stdout"][n] = Marshal(jsonArg, args.Pretty) \o <<"\n">>
    /\ fd = "open" => pc = "Write"
    /\ PrintJSONReturned =>
          IF "json.Marshal" \in faults
          THEN err # Nil /\ fd = "none" /\ JSONWrites("stdout") = {}
          ELSE IF args.Output = ""
          THEN /\ err = Nil
               /\ Cardinality(JSONWrites("stdout")) = 1
               /\ fd = "none"
               /\ \A p \in DOMAIN fs : fs[p] \in {NoFile, OldFile}
          ELSE /\ "os.Create" \in faults =>
                     /\ err = <<"open ", args.Output, ": permission denied">>
                     /\ fd = "none"
                     /\ Called("f.Write") = 0
               /\ "f.Write" \in faults =>
                     /\ err = <<"write ", args.Output, ": no space left on device">>
                     /\ fd = "closed"
               /\ SerializeFaults = {} =>
                     /\ err = Nil
                     /\ fd = "closed"
                     /\ args.Output # DevNull =>
                           fs[args.Output] =
                              [exists |-> TRUE, data |-> Marshal(jsonArg, args.Pretty)]

\* C11 witness: PrintJSON has returned the error of a failed write to out.json,
\* with the handle closed and nothing on standard output.
C11_Witness ==
    /\ pc = "exit"
    /\ args.Output = "out.json"
    /\ "f.Write" \in faults
    /\ fd = "closed"
    /\ err # Nil
    /\ out["stdout"] = <<>>

\* ExecuteDSL has been called and has returned.
ExecuteDSLReturned ==
    /\ Called("GetDNSConfig") = 1
    /\ pc \notin {"ExecuteDSL", "ExecuteJavaScript", "PostProcess"}

PositionOf(name) == CHOOSE n \in 1..Len(trace) : trace[n] = name

AllInForm(domains, form) == \A n \in 1..Len(domains) : domains[n].form = form

\* C12: ExecuteDSL returns a non-nil graph exactly when it returns no error. An
\* evaluator failure comes back as "executing <path>: <the failure>" without a
\* call of the post-processor; a post-processor failure comes back as it is;
\* both with a nil graph. The post-processor is called at most once, only after
\* the evaluator returned a graph, and on that graph's domain list.
C12_ExecuteDSLResult ==
    /\ Called("ExecuteJavaScript") <= 1
    /\ Called("PostProcess") <= 1
    /\ pc = "PostProcess" =>
          /\ Called("ExecuteJavaScript") = 1
          /\ ~dnsConfig.nil
          /\ AllInForm(dnsConfig.Domains, "evaluated")
    /\ Called("PostProcess") = 1 =>
          /\ Called("ExecuteJavaScript") = 1
          /\ PositionOf("ExecuteJavaScript") < PositionOf("PostProcess")
          /\ "ExecuteJavaScript" \notin faults
          /\ ~dnsConfig.nil
          /\ AllInForm(dnsConfig.Domains, "postprocessed")
    /\ ExecuteDSLReturned =>
          /\ dslRet.cfg.nil <=> (dslRet.err # Nil)
          /\ args.JSFile = "" =>
                dslRet = [cfg |-> NilConfig, err |-> <<"no config specified">>]
          /\ "ExecuteJavaScript" \in faults =>
                /\ dslRet.cfg = NilConfig
                /\ dslRet.err = <<"executing ", args.JSFile, ": ", "js error">>
                /\ Called("PostProcess") = 0
          /\ "PostProcess" \in faults =>
                /\ dslRet.cfg = NilConfig
                /\ dslRet.err = <<"postprocess error">>
          /\ (args.JSFile # "" /\ LoadFaults = {}) =>
                /\ dslRet.err = Nil
                /\ Called("PostProcess") = 1
                /\ dslRet.cfg = dnsConfig

\* C12 witness: ExecuteDSL has returned the failure of the post-processor, which
\* was called after the evaluator on a graph with a domain in it.
C12_Witness ==
    /\ pc = "PrintIR_loaded"
    /\ trace = <<"GetDNSConfig", "ExecuteJavaScript", "PostProcess">>
    /\ Len(dnsConfig.Domains) = 1
    /\ dslRet = [cfg |-> NilConfig, err |-> <<"postprocess error">>]

\* The run failed at Load, on a fatal issue, or while rendering.
EarlyFailure ==
    \/ flags.JSFile = ""
    \/ LoadFaults # {}
    \/ (~args.Raw /\ HasFatal(errs))
    \/ "json.Marshal" \in faults

\* C13: the destination changes only in the steps os.Create and f.Write of
\* PrintJSON, which are reached only with Load succeeded, nothing fatal found
\* and the text rendered; a run that fails at Load, on a fatal issue or while
\* rendering never makes either call and never holds a handle, so a file at
\* the destination path stays as it was.
C13_DestinationUntouched ==
    /\ [](EarlyFailure =>
            /\ Called("os.Create") = 0
            /\ Called("f.Write") = 0
            /\ fd = "none")
    /\ []((Called("os.Create") = 1 \/ pc = "Create") =>
            /\ LoadSucceeded
            /\ Called("PrintJSON") = 1
            /\ "json.Marshal" \notin faults
            /\ dat = Marshal(jsonArg, args.Pretty))
    /\ [][fs' # fs =>
            /\ pc \in {"Create", "Write"}
            /\ trace' = Append(trace, IF pc = "Create" THEN "os.Create" ELSE "f.Write")]_vars

\* C13 witness: a finished run that was to overwrite an existing out.json and
\* failed while rendering; the file is as it was.
C13_Witness ==
    /\ pc = "done"
    /\ args.Output = "out.json"
    /\ "json.Marshal" \in faults
    /\ Called("os.Create") = 0
    /\ fs["out.json"] = OldFile

====
